---- MODULE Spec2Model ----
(***************************************************************************)
(* Kinema.  The back end: the analysis route (routes/analysis.routes.js),   *)
(* the regression service runRegressionAnalysis (services/regression       *)
(* .service) and calculateAIC (utils/aic.utils.js).  The page: the         *)
(* evaluators of a fitted model (evaluatePolynomial, evaluateExponential,  *)
(* evaluateLogarithmic, evaluatePower, calculateResiduals, exportData) and *)
(* the handlers that start an analysis and receive its response.           *)
(*                                                                         *)
(* Numbers.  A JavaScript value is a record [t, v]: t = "num" with v the   *)
(* scaled integer, or t one of "NaN", "null", "undefined", "Infinity",     *)
(* "-Infinity" with v = 0.  An                                             *)
(* r2 is counted in units of 1/100000, so 0.05 is 5000 and 0.99999 is      *)
(* 99999; an aic is counted in units of 1/1000000 (AicUnit).  The fitting  *)
(* library (regression-js) reports r2 = 1 - sse/sst rounded to two         *)
(* decimals: the r2 of a fit is NaN, negative, or a multiple of 1000 units *)
(* that is at most 100000.                                                 *)
(*                                                                         *)
(* The fitters themselves are the library's: a call of model.fn() is a     *)
(* choice among the results it can produce (FitOutcomes).  They are pure   *)
(* functions of the data, so fitting the same polynomial order twice in    *)
(* one call gives the same result twice (poly).                            *)
(*                                                                         *)
(* Three specifications share the actions and differ in their inputs:      *)
(* Spec serves requests and calls on data of which only the number of      *)
(* points is known; SpecShaped serves data of a known shape (flat y, some  *)
(* x <= 0, colinear points), bodies that carry polynomialDegree, and calls *)
(* of calculateAIC; SpecRepeat keeps one call of runRegressionAnalysis and *)
(* makes it again after other calls.  SpecServe serves request after       *)
(* request with nothing cleared in between.  SpecEvaluate calls the        *)
(* evaluators, in exact arithmetic on whole coefficients and x, with       *)
(* results in thousandths.  SpecPage is the page's component: its state,   *)
(* the user's actions and the arrival of file reads and responses, a data  *)
(* set being known by a number; SpecPageFair adds that the browser         *)
(* delivers every event it owes.                                           *)
(***************************************************************************)
EXTENDS Integers, Sequences, FiniteSets, TLC

VARIABLES
   pc,                \* "idle", "route", "forEach" or "done": where the request stands
   via,               \* "route" or "direct": who called runRegressionAnalysis
   data,              \* req.body.data: whether it is an array, and its length
   polynomialDegree,  \* the local const of runRegressionAnalysis
   idx,               \* the index (from 1) of the next entry of models to visit
   results,           \* the local array results
   last,              \* the latest call of model.fn(): the family and what it produced
   poly,              \* what regression.polynomial(data, {order}) produced, per order
   outcome,           \* what runRegressionAnalysis returned or threw
   response,          \* the HTTP response sent by the route
   requested,         \* req.body.polynomialDegree as the front end sent it (0: absent)
   calc,              \* the latest call of calculateAIC: its arguments and its result
   first,             \* an earlier call of runRegressionAnalysis kept for comparison
   ev,                \* the latest call of an evaluator of the page, and what it returned
   analyzedData,      \* the page's state analyzedData: null, or the pairs last analysed
   regressionResults, \* the page's state regressionResults: null, or a backend response
   isAnalyzing,       \* the page's state isAnalyzing
   error,             \* the page's state error: null, or the message shown
   text,              \* the page's state text: what the input area holds
   flight             \* what the page is waiting for: file parses and requests under way

\* The state of the page's component.
page == <<analyzedData, regressionResults, isAnalyzing, error, text, flight>>

vars == <<pc, via, data, polynomialDegree, idx, results, last, poly, outcome, response,
          requested, calc, first, ev, page>>

(***************************************************************************)
(* Bounds of the model.                                                    *)
(***************************************************************************)
\* Largest number of points in a request's data array.
MaxPoints == 2
\* The number of points of a long data array.
ManyPoints == 106
\* Largest n and k in a call of calculateAIC.
MaxN == 4
MaxK == 5

(***************************************************************************)
(* Scales and JavaScript values.                                           *)
(***************************************************************************)
\* One unit of aic value 1, in the model's units.
AicUnit == 1000 * 1000

Num(x) == [t |-> "num", v |-> x]
NaN == [t |-> "NaN", v |-> 0]
Null == [t |-> "null", v |-> 0]
Undefined == [t |-> "undefined", v |-> 0]
Infinity == [t |-> "Infinity", v |-> 0]
NegInfinity == [t |-> "-Infinity", v |-> 0]

\* ToNumber as the relational operators apply it: null becomes 0, undefined NaN.
ToNumber(x) ==
   IF x.t = "null" THEN Num(0) ELSE IF x.t = "undefined" THEN NaN ELSE x

\* x === null
IsNull(x) == x.t = "null"

\* The mutant of isNaN: a test that never fires (as `x === NaN` would).
isNaNNever(x) == FALSE

\* isNaN(x): true exactly of NaN (null converts to 0).
isNaN(x) == ToNumber(x).t = "NaN"

\* isFinite(x): false of NaN and of the infinities.
isFinite(x) == ToNumber(x).t = "num"

\* a < b, a <= b, a >= b, a > b: false as soon as one side is NaN; -Infinity is
\* below and Infinity above every number.
Ordered(x) == ToNumber(x).t \in {"num", "Infinity", "-Infinity"}
Lt(a, b) ==
   LET x == ToNumber(a)
       y == ToNumber(b)
   IN /\ Ordered(a) /\ Ordered(b)
      /\ CASE x.t = "-Infinity" -> y.t # "-Infinity"
           [] x.t = "Infinity" -> FALSE
           [] x.t = "num" -> y.t = "Infinity" \/ (y.t = "num" /\ x.v < y.v)
Le(a, b) == Ordered(a) /\ Ordered(b) /\ ~Lt(b, a)
Ge(a, b) == Le(b, a)
Gt(a, b) == Lt(b, a)

(***************************************************************************)
(* Math.log(1 - r2) for 0 < r2 < 1, in units of 1/1000000, rounded to the *)
(* nearest unit.  LnHundredths[h] is ln(1 - h/100).                        *)
(***************************************************************************)
LnHundredths ==
   << -10050, -20203, -30459, -40822, -51293, -61875, -72571, -83382, -94311,
      -105361, -116534, -127833, -139262, -150823, -162519, -174353, -186330, -198451,
      -210721, -223144, -235722, -248461, -261365, -274437, -287682, -301105, -314711,
      -328504, -342490, -356675, -371064, -385662, -400478, -415515, -430783, -446287,
      -462035, -478036, -494296, -510826, -527633, -544727, -562119, -579818, -597837,
      -616186, -634878, -653926, -673345, -693147, -713350, -733969, -755023, -776529,
      -798508, -820981, -843970, -867501, -891598, -916291, -941609, -967584, -994252,
      -1021651, -1049822, -1078810, -1108663, -1139434, -1171183, -1203973, -1237874, -1272966,
      -1309333, -1347074, -1386294, -1427116, -1469676, -1514128, -1560648, -1609438, -1660731,
      -1714798, -1771957, -1832581, -1897120, -1966113, -2040221, -2120264, -2207275, -2302585,
      -2407946, -2525729, -2659260, -2813411, -2995732, -3218876, -3506558, -3912023, -4605170 >>

\* ln(1 - r2) at the r2 values off the two-decimal grid that the model uses.
LnOffGrid ==
   (1 :> -10) @@ (2 :> -20) @@ (50 :> -500) @@ (99950 :> -7600902)
   @@ (99998 :> -10819778) @@ (99999 :> -11512925)

\* The r2 values strictly between 0 and 1 whose logarithm is tabulated.
LogDomain == {h * 1000 : h \in 1..99} \cup DOMAIN LnOffGrid

\* Math.log(1 - r2): NaN for NaN and for r2 > 1, -Infinity at 1, 0 at 0 (and at
\* null, which converts to 0), Infinity at -Infinity, the tabulated value inside
\* (0, 1).
MathLog1m(r2) ==
   LET x == ToNumber(r2) IN
   CASE x.t = "-Infinity" -> Infinity
     [] x.t \in {"NaN", "Infinity"} -> NaN
     [] x.t = "num" /\ x.v > 100000 -> NaN
     [] x.t = "num" /\ x.v = 100000 -> NegInfinity
     [] x.t = "num" /\ x.v = 0 -> Num(0)
     [] x.t = "num" /\ x.v \in LogDomain /\ x.v % 1000 = 0 -> Num(LnHundredths[x.v \div 1000])
     [] x.t = "num" /\ x.v \in LogDomain /\ x.v % 1000 # 0 -> Num(LnOffGrid[x.v])

(***************************************************************************)
(* utils/aic.utils.js                                                      *)
(***************************************************************************)
\* r2 >= 0.99999: the near-perfect threshold.
NearOne == 99999
\* r2 <= 0.00001: the near-zero threshold.
NearZero == 1
\* -500 + k * 10 and 1000 + k * 10.
LowBaseline == -500
HighBaseline == 1000
PenaltyStep == 10

\* The earlier calculateAIC, the mutant of the current one: no test for a missing
\* r2, no thresholds, no fallback; Infinity for r2 <= 0.
calculateAICOld(n, k, r2) ==
   IF Le(r2, Num(0)) THEN Infinity
   ELSE LET logTerm == MathLog1m(r2) IN
        CASE logTerm.t = "num" -> Num(n * logTerm.v + 2 * k * AicUnit)
          [] logTerm.t = "-Infinity" -> IF n = 0 THEN NaN ELSE NegInfinity
          [] OTHER -> NaN

\* Mutants of calculateAIC: without its first test (line 11); without the
\* near-perfect branch (lines 16-20); with the sign of the log term wrong.
calculateAICUnguarded(n, k, r2) ==
   IF Ge(r2, Num(NearOne)) THEN Num((LowBaseline + k * PenaltyStep) * AicUnit)
   ELSE IF Le(r2, Num(NearZero)) THEN Num((HighBaseline + k * PenaltyStep) * AicUnit)
   ELSE LET logTerm == MathLog1m(r2) IN
        IF ~isFinite(logTerm) THEN Num((LowBaseline + k * PenaltyStep) * AicUnit)
        ELSE Num(n * logTerm.v + 2 * k * AicUnit)
calculateAICNoNearOne(n, k, r2) ==
   IF IsNull(r2) \/ isNaN(r2) \/ Lt(r2, Num(0)) THEN Null
   ELSE IF Le(r2, Num(NearZero)) THEN Num((HighBaseline + k * PenaltyStep) * AicUnit)
   ELSE LET logTerm == MathLog1m(r2) IN
        IF ~isFinite(logTerm) THEN Num((LowBaseline + k * PenaltyStep) * AicUnit)
        ELSE Num(n * logTerm.v + 2 * k * AicUnit)
calculateAICSignFlipped(n, k, r2) ==
   IF IsNull(r2) \/ isNaN(r2) \/ Lt(r2, Num(0)) THEN Null
   ELSE IF Ge(r2, Num(NearOne)) THEN Num((LowBaseline + k * PenaltyStep) * AicUnit)
   ELSE IF Le(r2, Num(NearZero)) THEN Num((HighBaseline + k * PenaltyStep) * AicUnit)
   ELSE LET logTerm == MathLog1m(r2) IN
        IF ~isFinite(logTerm) THEN Num((LowBaseline + k * PenaltyStep) * AicUnit)
        ELSE Num(2 * k * AicUnit - n * logTerm.v)

calculateAIC(n, k, r2) ==
   IF IsNull(r2) \/ isNaN(r2) \/ Lt(r2, Num(0)) THEN Null
   ELSE IF Ge(r2, Num(NearOne)) THEN Num((LowBaseline + k * PenaltyStep) * AicUnit)
   ELSE IF Le(r2, Num(NearZero)) THEN Num((HighBaseline + k * PenaltyStep) * AicUnit)
   ELSE LET logTerm == MathLog1m(r2) IN
        IF ~isFinite(logTerm) THEN Num((LowBaseline + k * PenaltyStep) * AicUnit)
        ELSE Num(n * logTerm.v + 2 * k * AicUnit)

(***************************************************************************)
(* services/regression.service.js: runRegressionAnalysis                   *)
(***************************************************************************)
\* The mutant of models: Exponential listed before Quartic.
modelsReordered == << "Linear", "Quadratic", "Cubic", "Exponential", "Quartic", "Logarithmic", "Power" >>

\* The models array: the families in the order forEach visits them.
models == << "Linear", "Quadratic", "Cubic", "Quartic", "Exponential", "Logarithmic", "Power" >>

\* options.polynomialDegree || 3, with 0 standing for an absent option.
DefaultDegree(opt) == IF opt = 0 THEN 3 ELSE opt

Min(a, b) == IF a < b THEN a ELSE b

\* res.equation.length of the fit model.fn() returns: [gradient, intercept] for
\* linear, order + 1 coefficients for polynomial, [a, b] for the other three.
EquationLength(name, degree) ==
   CASE name = "Linear" -> 2
     [] name = "Quadratic" -> 2 + 1
     [] name = "Cubic" -> 3 + 1
     [] name = "Quartic" -> Min(4, degree) + 1
     [] name \in {"Exponential", "Logarithmic", "Power"} -> 2

\* What one call of model.fn() can do: throw, or return a fit whose r2 is NaN,
\* null, negative, or a two-decimal value in [0, 1].  With fewer than two points
\* the total sum of squares is 0, so r2 = 1 - sse/0 is NaN or -Infinity.
Threw == [threw |-> TRUE, r2 |-> Null]
Returned(r2) == [threw |-> FALSE, r2 |-> r2]
R2Values == {82000, 86000, 90000, 91000, 100000}
Unusable == {Threw, Returned(NaN), Returned(Null), Returned(Num(-50000))}

\* r2 = 0.99, which a fit next to exact ones can reach.
AlmostOne == 99000

\* What is known of the points of a data array beside their number.  y is "flat"
\* when all points share one y, "colinear" when they lie on one sloped line, and
\* x is "nonpositive" when some point has x <= 0; "any" is nothing known.
Shaped(n, y, x) == [isArray |-> TRUE, length |-> n, y |-> y, x |-> x]

\* The results model.fn() can produce for family name (k coefficients) on data d.
\*  - flat y: the total sum of squares sst is 0, and r2 = 1 - sse/0 is NaN or
\*    -Infinity; or the mean of the equal y's is not exact in doubles (0.1 three
\*    times: 0.30000000000000004 / 3 = 0.10000000000000002), sst is a tiny
\*    positive number, and r2 = 1 - sse/sst is negative, or 1 when sse = 0;
\*  - some x <= 0: Math.log(x) is NaN or -Infinity in the sums of the
\*    logarithmic and power fits, and their r2 is NaN;
\*  - colinear points, at least as many as coefficients: the linear and
\*    polynomial fits are exact, r2 = 1.
FitOutcomes(d, name, k) ==
   IF d.length < 2 THEN Unusable \ {Returned(Null)}
   ELSE IF d.y = "flat"
        THEN {Returned(NaN), Returned(NegInfinity), Returned(Num(-50000)), Returned(Num(100000))}
   ELSE IF d.x = "nonpositive" /\ name \in {"Logarithmic", "Power"} THEN {Returned(NaN)}
   ELSE IF d.y = "colinear" /\ name \in {"Linear", "Quadratic", "Cubic", "Quartic"} /\ d.length >= k
        THEN {Returned(Num(100000))}
   ELSE IF d.y = "colinear"
        THEN Unusable \cup {Returned(Num(x)) : x \in R2Values \cup {AlmostOne}}
   ELSE Unusable \cup {Returned(Num(x)) : x \in R2Values}

\* The mutant of Dropped: the guard without its r2 < 0 test.
DroppedKeepsNegative(res) == IsNull(res.r2) \/ isNaN(res.r2)

\* The guard of the forEach body: the fit is dropped without an entry.  (Its
\* first test, !res, never holds: every fitter returns an object.)
Dropped(res) == IsNull(res.r2) \/ isNaN(res.r2) \/ Lt(res.r2, Num(0))

\* The mutant of Entry: calculateAIC called with n and k exchanged.
EntrySwapped(name, res, n, degree) ==
   LET k == EquationLength(name, degree) IN
   [model |-> name, r2 |-> res.r2, aic |-> calculateAIC(k, n, res.r2), k |-> k]

\* The entry pushed for a fit; k stands for equation and coefficients.
Entry(name, res, n, degree) ==
   LET k == EquationLength(name, degree) IN
   [model |-> name, r2 |-> res.r2, aic |-> calculateAIC(n, k, res.r2), k |-> k]

\* The filter that keeps the entries with a usable aic.
Usable(r) == ~IsNull(r.aic) /\ ~isNaN(r.aic) /\ isFinite(r.aic)
validResults(rs) == SelectSeq(rs, Usable)

\* 0.05, the decisive r2 margin.
Margin == 5000

\* The two-decimal values lo (in hundredths) at which the IEEE-754 double
\* subtraction (lo + 5)/100 - lo/100 comes out above the double 0.05.
RoundsUp == {9, 12, 15, 18, 21, 22, 23, 29, 35, 41, 47, 48, 49, 50, 51, 57, 58, 59,
             60, 61, 62, 63, 69, 70, 71, 72, 73, 74, 75, 76, 82, 83, 84, 85, 86, 87,
             88, 94, 95}

\* hi - lo > 0.05 in double arithmetic, for hi >= lo >= 0.
DoubleDiffAbove(hi, lo) ==
   IF hi - lo = Margin /\ lo % 1000 = 0 THEN (lo \div 1000) \in RoundsUp
   ELSE hi - lo > Margin

\* a - b > 0.05
ExceedsBy(a, b) ==
   /\ ToNumber(a).t = "num" /\ ToNumber(b).t = "num"
   /\ ToNumber(a).v > ToNumber(b).v
   /\ DoubleDiffAbove(ToNumber(a).v, ToNumber(b).v)

\* The mutant of Within: a - b <= 0.05, the Math.abs left out.
WithinNoAbs(a, b) ==
   /\ ToNumber(a).t = "num" /\ ToNumber(b).t = "num"
   /\ ~ExceedsBy(a, b)

\* Math.abs(a - b) <= 0.05
Within(a, b) ==
   /\ ToNumber(a).t = "num" /\ ToNumber(b).t = "num"
   /\ ~ExceedsBy(a, b) /\ ~ExceedsBy(b, a)

\* One round of the selection loop: the bestModel after looking at model.
Better(model, best) ==
   IF ExceedsBy(model.r2, best.r2) THEN model
   ELSE IF Within(model.r2, best.r2) /\ Lt(model.aic, best.aic) THEN model
   ELSE best

RECURSIVE ScanFrom(_, _, _)
ScanFrom(valid, i, best) ==
   IF i > Len(valid) THEN best ELSE ScanFrom(valid, i + 1, Better(valid[i], best))

\* let bestModel = validResults[0]; for (const model of validResults) ...
SelectBest(valid) == ScanFrom(valid, 1, valid[1])

\* Everything after the forEach: filter, the empty-pool error, the scan, the return.
NoModel == [model |-> "none", r2 |-> Null, aic |-> Null, k |-> 0]
NoOutcome == [kind |-> "none", error |-> "", bestModel |-> NoModel, allModels |-> << >>]
\* The mutant of Conclusion: the empty-pool test left out, so that an empty pool
\* returns validResults[0], which is undefined.
ConclusionNoCheck(rs) ==
   [kind |-> "returned", error |-> "",
    bestModel |-> IF Len(validResults(rs)) = 0 THEN NoModel ELSE SelectBest(validResults(rs)),
    allModels |-> rs]

Conclusion(rs) ==
   IF Len(validResults(rs)) = 0
   THEN [kind |-> "threw", error |-> "No valid regression models found",
         bestModel |-> NoModel, allModels |-> << >>]
   ELSE [kind |-> "returned", error |-> "",
         bestModel |-> SelectBest(validResults(rs)), allModels |-> rs]

(***************************************************************************)
(* routes/analysis.routes.js and the state machine of one request          *)
(***************************************************************************)
NoResponse == [status |-> 0, error |-> ""]
NoCall == [model |-> "none", res |-> Threw]
NotFitted == [threw |-> FALSE, r2 |-> Num(-1)]
NoPoly == [o \in {2, 3} |-> NotFitted]

\* The request bodies: data that is no array, or an array of 0..MaxPoints points.
NotArray == [isArray |-> FALSE, length |-> 0, y |-> "any", x |-> "any"]
Array(n) == Shaped(n, "any", "any")
Bodies == {NotArray} \cup {Array(n) : n \in 0..MaxPoints}

\* Data of a known shape: flat or with some x <= 0 at 2..MaxPoints points, and
\* ManyPoints points on a line, with and without an x <= 0.
ShapedBodies ==
   {Array(1)}
   \cup {Shaped(n, "flat", "any") : n \in 2..MaxPoints}
   \cup {Shaped(n, "any", "nonpositive") : n \in 2..MaxPoints}
   \cup {Shaped(ManyPoints, "colinear", x) : x \in {"any", "nonpositive"}}

\* The polynomialDegree the front end can send: 2..6 from its selector, 0 for a
\* body without one.
RequestDegrees == {0, 2, 4, 5, 6}

\* The arguments of the calls of calculateAIC: n in 0..MaxN, k in 0..MaxK, and r2
\* missing, not a number, infinite, negative, at and around both thresholds, above 1,
\* and the two-decimal values between.
R2Arguments ==
   {Null, Undefined, NaN, Infinity, NegInfinity}
   \cup {Num(x) : x \in {-50000, -1, 0, NearZero, NearOne, 100000, 100001, 150000}}
   \cup {Num(x) : x \in LogDomain}
NoCalc == [called |-> FALSE, n |-> 0, k |-> 0, r2 |-> Null, aic |-> Null]

\* The earlier call kept for comparison: none yet, "armed" (the next call is the
\* one), "recording" (that call is running), "recorded" (it is over): its data,
\* its degree, what each model.fn() produced, its outcome; whether another call
\* came after it (between), and whether it was made again (again).
NoFirst ==
   [state |-> "none", data |-> NotArray, degree |-> 0, fits |-> << >>, outcome |-> NoOutcome,
    between |-> FALSE, again |-> FALSE]
Replaying == first.state = "recorded" /\ data = first.data /\ polynomialDegree = first.degree

\* The polynomialDegree options of a direct caller; 0 is the absent option.
DegreeOptions == {0, 4}

\* The mutant of Invalid: the length test off by one (data.length < 1).
InvalidOffByOne(d) == ~d.isArray \/ d.length < 1

\* !Array.isArray(data) || data.length < 2
Invalid(d) == ~d.isArray \/ d.length < 2

\* The route's answer to what runRegressionAnalysis did: res.json(result), or the catch.
Respond(o) ==
   IF o.kind = "returned" THEN [status |-> 200, error |-> ""]
   ELSE [status |-> 500, error |-> "Regression analysis failed"]

\* The order regression.polynomial is called with for a family (0: not polynomial).
Order(name, degree) ==
   CASE name = "Quadratic" -> 2
     [] name = "Cubic" -> 3
     [] name = "Quartic" -> Min(4, degree)
     [] OTHER -> 0

\* The mutant of Fits: fitters that are no functions of the data from one call of
\* runRegressionAnalysis to the next.
FitsUnremembered(name) ==
   LET o == Order(name, polynomialDegree) IN
   IF o \in DOMAIN poly /\ poly[o] # NotFitted THEN {poly[o]}
   ELSE FitOutcomes(data, name, EquationLength(name, polynomialDegree))

\* What model.fn() can produce now: the fitters are pure functions of the data, so
\* a polynomial order fitted before produces the same again, and so does every
\* fitter when the kept call is made again.
Fits(name) ==
   LET o == Order(name, polynomialDegree) IN
   IF Replaying THEN {first.fits[idx]}
   ELSE IF o \in DOMAIN poly /\ poly[o] # NotFitted THEN {poly[o]}
   ELSE FitOutcomes(data, name, EquationLength(name, polynomialDegree))

\* poly keeps what an order produced when the Quartic entry asks for that order again.
Remember(name, res) ==
   LET o == Order(name, polynomialDegree) IN
   IF name # "Quartic" /\ o = Order("Quartic", polynomialDegree)
   THEN [poly EXCEPT ![o] = res] ELSE poly

\* The families model.fn() has been called for, in call order.
attempted == SubSeq(models, 1, idx - 1)

(***************************************************************************)
(* The evaluators of the page: predictions and residuals of a fitted       *)
(* model.  Coefficients, x and y are whole numbers; predictions and        *)
(* residuals are numbers of thousandths.                                   *)
(***************************************************************************)
Milli == 1000

\* Largest x of a point, and largest number of points handed to the residuals.
MaxX == 4
MaxRows == 2
XValues == -2..MaxX
YValues == {0, 3}

\* Math.log(x) for x > 0, Math.exp(z) and Math.pow(x, b), in thousandths.
MathLog(x) == <<0, 693, 1099, 1386, 1609, 1792>>[x]
MathExp(z) ==
   <<7, 18, 50, 135, 368, 1000, 2718, 7389, 20086, 54598, 148413, 403429, 1096633,
     2980958, 8103084, 22026466>>[z + 6]
RECURSIVE Power(_, _)
Power(x, e) == IF e = 0 THEN 1 ELSE x * Power(x, e - 1)
MathPow(x, b) == IF b >= 0 THEN Milli * Power(x, b) ELSE (2 * Milli + Power(x, -b)) \div (2 * Power(x, -b))

\* The coefficient arrays the evaluators are called with: any length from 0 to
\* 5 for a polynomial, and up to two entries, NaN among them, for the others.
CoefficientValues == {Num(-1), Num(0), Num(1), Num(2)}
Arrays(values, lengths) == UNION {[1..n -> values] : n \in lengths}
PolyCoefficients == Arrays(CoefficientValues, 0..5)
PairCoefficients == Arrays(CoefficientValues \cup {NaN}, 0..2)

\* The mutant of evaluatePolynomial: the coefficients taken lowest degree first.
RECURSIVE ReduceAscending(_, _, _)
ReduceAscending(coefficients, x, index) ==
   IF index = 0 THEN 0
   ELSE ReduceAscending(coefficients, x, index - 1) + coefficients[index].v * Power(x, index - 1)
evaluatePolynomialAscending(coefficients, x) ==
   IF \E i \in 1..Len(coefficients) : isNaN(coefficients[i]) THEN NaN
   ELSE Num(Milli * ReduceAscending(coefficients, x, Len(coefficients)))

\* coefficients.reduce((sum, coef, index) => sum + coef * Math.pow(x, length - 1 - index), 0):
\* the sum after the first `index` coefficients (Math.pow(0, 0) is 1).
RECURSIVE Reduce(_, _, _)
Reduce(coefficients, x, index) ==
   IF index = 0 THEN 0
   ELSE Reduce(coefficients, x, index - 1)
           + coefficients[index].v * Power(x, Len(coefficients) - index)
evaluatePolynomial(coefficients, x) ==
   IF \E i \in 1..Len(coefficients) : isNaN(coefficients[i]) THEN NaN
   ELSE Num(Milli * Reduce(coefficients, x, Len(coefficients)))

evaluateExponential(coefficients, x) ==
   IF Len(coefficients) < 2 THEN Num(0)
   ELSE LET a == coefficients[1]
            b == coefficients[2]
        IN IF isNaN(a) \/ isNaN(b) THEN Num(0)
           ELSE Num(a.v * MathExp(b.v * x))

\* const b = coefficients[0]; const a = coefficients[1]; return a + b * Math.log(x)
evaluateLogarithmic(coefficients, x) ==
   IF Len(coefficients) < 2 THEN Null
   ELSE IF x <= 0 THEN Null
   ELSE LET b == coefficients[1]
            a == coefficients[2]
        IN IF isNaN(a) \/ isNaN(b) THEN Null
           ELSE Num(a.v * Milli + b.v * MathLog(x))

\* The mutant of evaluatePower: no test of x.
evaluatePowerAnywhere(coefficients, x) ==
   IF Len(coefficients) < 2 THEN Null
   ELSE LET a == coefficients[1]
            b == coefficients[2]
        IN IF isNaN(a) \/ isNaN(b) THEN Null
           ELSE IF x = 0 THEN Num(IF b.v = 0 THEN a.v * Milli ELSE 0)
           ELSE Num(a.v * MathPow(IF x < 0 THEN -x ELSE x, b.v))

evaluatePower(coefficients, x) ==
   IF Len(coefficients) < 2 THEN Null
   ELSE IF x <= 0 THEN Null
   ELSE LET a == coefficients[1]
            b == coefficients[2]
        IN IF isNaN(a) \/ isNaN(b) THEN Null
           ELSE Num(a.v * MathPow(x, b.v))

\* The switch on bestModel.model of calculateResiduals and of exportData.
Polynomials == {"Linear", "Quadratic", "Cubic", "Quartic"}
Predicted(bestModel, x) ==
   CASE bestModel.model \in Polynomials -> evaluatePolynomial(bestModel.coefficients, x)
     [] bestModel.model = "Exponential" -> evaluateExponential(bestModel.coefficients, x)
     [] bestModel.model = "Logarithmic" -> evaluateLogarithmic(bestModel.coefficients, x)
     [] bestModel.model = "Power" -> evaluatePower(bestModel.coefficients, x)
     [] OTHER -> Num(0)

\* y - predicted: null converts to 0, NaN stays NaN.
Minus(y, predicted) ==
   LET p == ToNumber(predicted) IN IF p.t = "NaN" THEN NaN ELSE Num(Milli * y - p.v)

\* data.map(([x, y]) => ({ x, residual: y - predicted }))
calculateResiduals(points, bestModel) ==
   [i \in 1..Len(points) |->
      [x |-> points[i][1], residual |-> Minus(points[i][2], Predicted(bestModel, points[i][1]))]]

\* The lines exportData writes after the header: x, y, predicted, residual.
exportData(points, bestModel) ==
   [i \in 1..Len(points) |->
      [x |-> points[i][1], y |-> points[i][2],
       predicted |-> Predicted(bestModel, points[i][1]),
       residual |-> Minus(points[i][2], Predicted(bestModel, points[i][1]))]]

\* The evaluator called by name.
Evaluators == {"evaluatePolynomial", "evaluateExponential", "evaluateLogarithmic", "evaluatePower"}
Apply(fn, coefficients, x) ==
   CASE fn = "evaluatePolynomial" -> evaluatePolynomial(coefficients, x)
     [] fn = "evaluateExponential" -> evaluateExponential(coefficients, x)
     [] fn = "evaluateLogarithmic" -> evaluateLogarithmic(coefficients, x)
     [] fn = "evaluatePower" -> evaluatePower(coefficients, x)

\* The best models and the data the residuals are computed for: a model of any
\* family, or of a name the switch does not know, with coefficients of the
\* family's length.
BestModels ==
   {[model |-> name, coefficients |-> c] :
       name \in {"Linear", "Exponential", "Logarithmic", "Power", "Sigmoid"},
       c \in Arrays({Num(1), Num(2)}, {2})}
   \cup {[model |-> "Quadratic", coefficients |-> c] : c \in Arrays({Num(1), Num(2)}, {3})}
   \cup {[model |-> name, coefficients |-> c] :
            name \in {"Cubic", "Quartic"}, c \in Arrays({Num(0), Num(1)}, {4})}
   \cup {[model |-> "Quartic", coefficients |-> c] : c \in Arrays({Num(1)}, {5})}
PointLists == Arrays(XValues \X YValues, 0..MaxRows)
NoEv ==
   [op |-> "none", fn |-> "none", bestModel |-> [model |-> "none", coefficients |-> << >>],
    coefficients |-> << >>, x |-> 0, points |-> << >>, value |-> Undefined,
    residuals |-> << >>, rows |-> << >>]

\* The state of the page.  Data sets are told apart by a number; the backend's
\* answer to a data set carries the number of the data set it was computed for.
MaxData == 2
MaxFlight == 2
DataIds == 1..MaxData
NoData == [isNull |-> TRUE, id |-> 0]
NoResults == [isNull |-> TRUE, id |-> 0]
NoError == ""
NoText == [kind |-> "empty", id |-> 0]
Analyzed(d) == [isNull |-> FALSE, id |-> d]
ResultsFor(d) == [isNull |-> FALSE, id |-> d]

\* What the input area or a CSV file can hold: nothing, lines the parser reports
\* errors for, fewer than two valid pairs, or the pairs of a data set.  A file may
\* also be one the FileReader cannot read.
Pairs(d) == [kind |-> "pairs", id |-> d]
Texts ==
   {NoText, [kind |-> "errors", id |-> 0], [kind |-> "few", id |-> 0]}
      \cup {Pairs(d) : d \in DataIds}
Unreadable == [kind |-> "unreadable", id |-> 0]
NoFile == [kind |-> "none", id |-> 0]
NotCsv == [kind |-> "notcsv", id |-> 0]
Files == Texts \cup {Unreadable, NoFile, NotCsv}

\* What the page waits for.
Parsing(file) == [kind |-> "parse", content |-> file]
Fetching(d) == [kind |-> "fetch", content |-> Pairs(d)]
BackendErrors ==
   {"Regression analysis failed", "Network error. Please check if the backend is running."}

\* Everything of the backend but pc.
backEnd == <<via, data, polynomialDegree, idx, results, last, poly, outcome, response,
             requested, calc, first>>

Init ==
   /\ pc = "idle"
   /\ via = "route"
   /\ data = NotArray
   /\ polynomialDegree = 3
   /\ idx = 1
   /\ results = << >>
   /\ last = NoCall
   /\ poly = NoPoly
   /\ outcome = NoOutcome
   /\ response = NoResponse
   /\ requested = 0
   /\ calc = NoCalc
   /\ first = NoFirst
   /\ ev = NoEv
   /\ analyzedData = NoData
   /\ regressionResults = NoResults
   /\ isAnalyzing = FALSE
   /\ error = NoError
   /\ text = NoText
   /\ flight = {}

\* first when a call of runRegressionAnalysis(d, options) starts: an armed
\* observer starts recording it.
Started(d, opt) ==
   IF first.state = "armed"
   THEN [first EXCEPT !.state = "recording", !.data = d, !.degree = DefaultDegree(opt)]
   ELSE IF first.state = "recorded" /\ d = first.data /\ DefaultDegree(opt) = first.degree
   THEN [first EXCEPT !.again = TRUE]
   ELSE IF first.state = "recorded" /\ ~first.again
   THEN [first EXCEPT !.between = TRUE]
   ELSE first

\* A POST reaches the route; its body carries data and polynomialDegree.
Post(d, degree) ==
   /\ pc = "idle"
   /\ pc' = "route"
   /\ via' = "route"
   /\ data' = d
   /\ requested' = degree
   /\ UNCHANGED <<polynomialDegree, idx, results, last, poly, outcome, response, calc, first>>
   /\ UNCHANGED <<ev, page>>

\* The mutant of RouteReject: the guard answers 400 without returning, so the
\* handler goes on to call runRegressionAnalysis and to answer again.
RouteRejectFallsThrough ==
   /\ pc = "route"
   /\ Invalid(data)
   /\ response' = [status |-> 400, error |-> "At least two data points are required"]
   /\ polynomialDegree' = DefaultDegree(0)
   /\ results' = << >>
   /\ idx' = 1
   /\ pc' = "forEach"
   /\ UNCHANGED <<via, data, last, poly, outcome, requested, calc, first>>
   /\ UNCHANGED <<ev, page>>

\* The route's guard answers 400 and returns.
RouteReject ==
   /\ pc = "route"
   /\ Invalid(data)
   /\ response' = [status |-> 400, error |-> "At least two data points are required"]
   /\ pc' = "done"
   /\ UNCHANGED <<via, data, polynomialDegree, idx, results, last, poly, outcome,
                  requested, calc, first>>
   /\ UNCHANGED <<ev, page>>

\* The mutant of RouteInvoke: results is one list of the module, not a list made
\* by each call, so a call appends to what the calls before it left.
RouteInvokeShared ==
   /\ pc = "route"
   /\ ~Invalid(data)
   /\ polynomialDegree' = DefaultDegree(0)
   /\ idx' = 1
   /\ pc' = "forEach"
   /\ first' = Started(data, 0)
   /\ poly' = NoPoly
   /\ UNCHANGED <<via, data, results, last, outcome, response, requested, calc>>
   /\ UNCHANGED <<ev, page>>

\* The route calls runRegressionAnalysis(data): no options, so the degree is 3.
RouteInvoke ==
   /\ pc = "route"
   /\ ~Invalid(data)
   /\ polynomialDegree' = DefaultDegree(0)
   /\ results' = << >>
   /\ idx' = 1
   /\ pc' = "forEach"
   /\ first' = Started(data, 0)
   /\ poly' = NoPoly
   /\ UNCHANGED <<via, data, last, outcome, response, requested, calc>>
   /\ UNCHANGED <<ev, page>>

\* Another caller of the exported function: runRegressionAnalysis(d, options).
Call(d, opt) ==
   /\ pc = "idle"
   /\ via' = "direct"
   /\ data' = d
   /\ polynomialDegree' = DefaultDegree(opt)
   /\ results' = << >>
   /\ idx' = 1
   /\ pc' = "forEach"
   /\ first' = Started(d, opt)
   /\ poly' = NoPoly
   /\ UNCHANGED <<last, outcome, response, requested, calc>>
   /\ UNCHANGED <<ev, page>>

\* first after model.fn() produced res, and after the call ended with outcome o.
Fitted(res) ==
   IF first.state = "recording" THEN [first EXCEPT !.fits = Append(@, res)] ELSE first
Ended(o) ==
   IF first.state = "recording" THEN [first EXCEPT !.state = "recorded", !.outcome = o]
   ELSE first

\* The mutant of ForEachStep: no try/catch, so a throwing fit ends the call.
ForEachStepNoCatch ==
   /\ pc = "forEach"
   /\ idx <= Len(models)
   /\ \E res \in Fits(models[idx]) :
        /\ last' = [model |-> models[idx], res |-> res]
        /\ poly' = Remember(models[idx], res)
        /\ IF res.threw
           THEN /\ outcome' = [kind |-> "threw", error |-> "fit failed",
                               bestModel |-> NoModel, allModels |-> << >>]
                /\ response' = IF via = "route" THEN Respond(outcome') ELSE response
                /\ pc' = "done"
                /\ first' = Ended(outcome')
                /\ UNCHANGED <<results, idx>>
           ELSE /\ results' = IF Dropped(res) THEN results
                              ELSE Append(results, Entry(models[idx], res, data.length, polynomialDegree))
                /\ idx' = idx + 1
                /\ first' = Fitted(res)
                /\ UNCHANGED <<pc, outcome, response>>
   /\ UNCHANGED <<via, data, polynomialDegree, requested, calc>>
   /\ UNCHANGED <<ev, page>>

\* One round of models.forEach: call model.fn(); a throw is caught and logged, a
\* fit with an unusable r2 is dropped, any other fit is pushed with its aic.
ForEachStep ==
   /\ pc = "forEach"
   /\ idx <= Len(models)
   /\ \E res \in Fits(models[idx]) :
        /\ last' = [model |-> models[idx], res |-> res]
        /\ poly' = Remember(models[idx], res)
        /\ results' = IF res.threw \/ Dropped(res) THEN results
                      ELSE Append(results, Entry(models[idx], res, data.length, polynomialDegree))
        /\ first' = Fitted(res)
   /\ idx' = idx + 1
   /\ UNCHANGED <<pc, via, data, polynomialDegree, outcome, response, requested, calc>>
   /\ UNCHANGED <<ev, page>>

\* After the loop: the function returns or throws, and the route answers.
Conclude ==
   /\ pc = "forEach"
   /\ idx > Len(models)
   /\ outcome' = Conclusion(results)
   /\ response' = IF via = "route" THEN Respond(outcome') ELSE response
   /\ pc' = "done"
   /\ first' = Ended(outcome')
   /\ UNCHANGED <<via, data, polynomialDegree, idx, results, last, poly, requested, calc>>
   /\ UNCHANGED <<ev, page>>

\* A call of the exported calculateAIC(n, k, r2).
Calculate ==
   /\ pc = "idle"
   /\ \E n \in 0..MaxN, k \in 0..MaxK, r2 \in R2Arguments :
        calc' = [called |-> TRUE, n |-> n, k |-> k, r2 |-> r2, aic |-> calculateAIC(n, k, r2)]
   /\ pc' = "done"
   /\ via' = "direct"
   /\ UNCHANGED <<data, polynomialDegree, idx, results, last, poly, outcome,
                  response, requested, first>>
   /\ UNCHANGED <<ev, page>>

\* The next call of runRegressionAnalysis is the one kept for comparison.
Watch ==
   /\ pc = "idle"
   /\ first.state = "none"
   /\ first' = [first EXCEPT !.state = "armed"]
   /\ UNCHANGED <<pc, via, data, polynomialDegree, idx, results, last, poly, outcome,
                  response, requested, calc>>
   /\ UNCHANGED <<ev, page>>

\* The request, or the call, is over: nothing of it is kept for the next one.
Settle ==
   /\ pc = "done"
   /\ pc' = "idle"
   /\ via' = "route"
   /\ data' = NotArray
   /\ polynomialDegree' = 3
   /\ idx' = 1
   /\ results' = << >>
   /\ last' = NoCall
   /\ poly' = NoPoly
   /\ outcome' = NoOutcome
   /\ response' = NoResponse
   /\ requested' = 0
   /\ calc' = NoCalc
   /\ ev' = NoEv
   /\ UNCHANGED <<first, page>>

\* Requests and calls on data in general position.
Next ==
   \/ \E d \in Bodies : Post(d, 0)
   \/ RouteReject
   \/ RouteInvoke
   \/ \E n \in 0..MaxPoints, opt \in DegreeOptions : Call(Array(n), opt)
   \/ ForEachStep
   \/ Conclude
   \/ Settle

Spec == Init /\ [][Next]_vars

\* Requests and calls on data of a known shape, and calls of calculateAIC.
NextShaped ==
   \/ \E d \in ShapedBodies, degree \in RequestDegrees : Post(d, degree)
   \/ RouteReject
   \/ RouteInvoke
   \/ \E d \in ShapedBodies, opt \in RequestDegrees : Call(d, opt)
   \/ ForEachStep
   \/ Conclude
   \/ Calculate
   \/ Settle

SpecShaped == Init /\ [][NextShaped]_vars

\* Calls and requests made again: one call is kept, others follow, among them
\* the same call once more.
RepeatBodies == {Array(1), Shaped(ManyPoints, "colinear", "nonpositive")}
NextRepeat ==
   \/ Watch
   \/ \E d \in RepeatBodies : Post(d, 0)
   \/ RouteReject
   \/ RouteInvoke
   \/ \E d \in RepeatBodies, opt \in DegreeOptions : Call(d, opt)
   \/ ForEachStep
   \/ Conclude
   \/ Settle

SpecRepeat == Init /\ [][NextRepeat]_vars

\* The handler, or the call, has returned and the process serves the next one:
\* what the last call left in memory is still there, and no step clears it.
Return ==
   /\ pc = "done"
   /\ pc' = "idle"
   /\ UNCHANGED <<via, data, polynomialDegree, idx, results, last, poly, outcome,
                  response, requested, calc, first>>
   /\ UNCHANGED <<ev, page>>

\* One process serving request after request and call after call, on data of
\* three different sizes.
ServeBodies ==
   {Array(1), Shaped(MaxPoints, "flat", "any"), Shaped(ManyPoints, "colinear", "nonpositive")}
NextServe ==
   \/ \E d \in ServeBodies : Post(d, 0)
   \/ RouteReject
   \/ RouteInvoke
   \/ \E d \in ServeBodies, opt \in DegreeOptions : Call(d, opt)
   \/ ForEachStep
   \/ Conclude
   \/ Return

SpecServe == Init /\ [][NextServe]_vars

\* A call of one of the four evaluators.
Evaluate ==
   /\ pc = "idle"
   /\ \E fn \in Evaluators, x \in XValues :
        \E coefficients \in (IF fn = "evaluatePolynomial" THEN PolyCoefficients
                             ELSE PairCoefficients) :
           ev' = [NoEv EXCEPT !.op = "evaluate", !.fn = fn, !.coefficients = coefficients,
                              !.x = x, !.value = Apply(fn, coefficients, x)]
   /\ pc' = "done"
   /\ UNCHANGED <<backEnd, page>>

\* A call of calculateResiduals(data, bestModel).
Residuals ==
   /\ pc = "idle"
   /\ \E points \in PointLists, bestModel \in BestModels :
        ev' = [NoEv EXCEPT !.op = "residuals", !.bestModel = bestModel, !.points = points,
                           !.residuals = calculateResiduals(points, bestModel)]
   /\ pc' = "done"
   /\ UNCHANGED <<backEnd, page>>

\* A call of exportData("csv") with analyzedData.data and regressionResults.bestModel.
Export ==
   /\ pc = "idle"
   /\ \E points \in PointLists, bestModel \in BestModels :
        ev' = [NoEv EXCEPT !.op = "export", !.bestModel = bestModel, !.points = points,
                           !.rows = exportData(points, bestModel)]
   /\ pc' = "done"
   /\ UNCHANGED <<backEnd, page>>

\* The page evaluating fitted models.
NextEvaluate ==
   \/ Evaluate
   \/ Residuals
   \/ Export
   \/ Settle

SpecEvaluate == Init /\ [][NextEvaluate]_vars

\* The user edits the input area: setText.
Type(t) ==
   /\ text' = t
   /\ text' # text
   /\ UNCHANGED <<pc, backEnd, ev, analyzedData, regressionResults, isAnalyzing, error, flight>>

\* handleAnalyze up to its await: the button is disabled while isAnalyzing.
HandleAnalyze ==
   /\ ~isAnalyzing
   /\ regressionResults' = NoResults
   /\ CASE text.kind = "errors" ->
             /\ error' = "Input format error. Please check the data format."
             /\ isAnalyzing' = FALSE
             /\ UNCHANGED <<analyzedData, flight>>
        [] text.kind \in {"empty", "few"} ->
             /\ error' = "At least two valid data points are required for analysis."
             /\ isAnalyzing' = FALSE
             /\ UNCHANGED <<analyzedData, flight>>
        [] text.kind = "pairs" ->
             /\ Cardinality(flight) < MaxFlight
             /\ error' = NoError
             /\ isAnalyzing' = TRUE
             /\ analyzedData' = Analyzed(text.id)
             /\ flight' = flight \cup {Fetching(text.id)}
   /\ UNCHANGED <<pc, backEnd, ev, text>>

\* handleFileChange: the file is handed to Papa.parse with a complete callback.
HandleFileChange(file) ==
   /\ CASE file = NoFile ->
             /\ error' = NoError
             /\ UNCHANGED <<isAnalyzing, flight>>
        [] file = NotCsv ->
             /\ error' = "Please upload a valid CSV file."
             /\ UNCHANGED <<isAnalyzing, flight>>
        [] OTHER ->
             /\ Cardinality(flight) < MaxFlight
             /\ error' = NoError
             /\ isAnalyzing' = TRUE
             /\ flight' = flight \cup {Parsing(file)}
   /\ UNCHANGED <<pc, backEnd, ev, analyzedData, regressionResults, text>>

\* Papa.parse has read the file and calls complete(results).
ParseComplete(file) ==
   /\ Parsing(file) \in flight
   /\ file # Unreadable
   /\ CASE file.kind = "errors" ->
             /\ error' = "CSV format error. Please check the file structure."
             /\ isAnalyzing' = FALSE
             /\ flight' = flight \ {Parsing(file)}
             /\ UNCHANGED analyzedData
        [] file.kind \in {"empty", "few"} ->
             /\ error' = "At least two valid data points are required for analysis."
             /\ isAnalyzing' = FALSE
             /\ flight' = flight \ {Parsing(file)}
             /\ UNCHANGED analyzedData
        [] file.kind = "pairs" ->
             /\ analyzedData' = Analyzed(file.id)
             /\ flight' = (flight \ {Parsing(file)}) \cup {Fetching(file.id)}
             /\ UNCHANGED <<error, isAnalyzing>>
   /\ UNCHANGED <<pc, backEnd, ev, regressionResults, text>>

\* The FileReader fails: Papa.parse was given no error callback, and complete is
\* not called.
ParseFails ==
   /\ Parsing(Unreadable) \in flight
   /\ flight' = flight \ {Parsing(Unreadable)}
   /\ UNCHANGED <<pc, backEnd, ev, analyzedData, regressionResults, isAnalyzing, error, text>>

\* The backend's 200 arrives: the handler goes on after its await.
ResponseOk(d) ==
   /\ Fetching(d) \in flight
   /\ regressionResults' = ResultsFor(d)
   /\ isAnalyzing' = FALSE
   /\ flight' = flight \ {Fetching(d)}
   /\ UNCHANGED <<pc, backEnd, ev, analyzedData, error, text>>

\* The backend answers with an error, or the request fails: the catch.
ResponseError(d) ==
   /\ Fetching(d) \in flight
   /\ \E message \in BackendErrors : error' = message
   /\ isAnalyzing' = FALSE
   /\ flight' = flight \ {Fetching(d)}
   /\ UNCHANGED <<pc, backEnd, ev, analyzedData, regressionResults, text>>

\* loadSample(type): a sample replaces the text and the analysis is cleared.
LoadSample(d) ==
   /\ text' = Pairs(d)
   /\ error' = NoError
   /\ analyzedData' = NoData
   /\ regressionResults' = NoResults
   /\ UNCHANGED <<pc, backEnd, ev, isAnalyzing, flight>>

\* handleClear.
HandleClear ==
   /\ text' = NoText
   /\ error' = NoError
   /\ analyzedData' = NoData
   /\ regressionResults' = NoResults
   /\ UNCHANGED <<pc, backEnd, ev, isAnalyzing, flight>>

\* The page: the user's actions, and the arrivals of what the page waits for.
Arrival ==
   \/ \E file \in Texts : ParseComplete(file)
   \/ ParseFails
   \/ \E d \in DataIds : ResponseOk(d)
   \/ \E d \in DataIds : ResponseError(d)
NextPage ==
   \/ \E t \in Texts : Type(t)
   \/ HandleAnalyze
   \/ \E file \in Files : HandleFileChange(file)
   \/ \E d \in DataIds : LoadSample(d)
   \/ HandleClear
   \/ Arrival

SpecPage == Init /\ [][NextPage]_vars

\* The browser delivers every event it owes the page: a file read ends in a load
\* or in an error, a fetch in a response or in a failure.
SpecPageFair ==
   /\ SpecPage
   /\ \A file \in Texts : WF_vars(ParseComplete(file))
   /\ WF_vars(ParseFails)
   /\ \A d \in DataIds : WF_vars(ResponseOk(d) \/ ResponseError(d))

(***************************************************************************)
(* Properties                                                              *)
(***************************************************************************)
\* The candidate pool of a finished call, and the entries of a sequence as a set.
Pool == validResults(results)
Entries(seq) == {seq[i] : i \in 1..Len(seq)}
Finished == pc = "done" /\ outcome.kind # "none"

\* C1: whenever runRegressionAnalysis returns, bestModel is an entry of allModels,
\* its r2 is a number in [0, 1] and its aic is a finite number, whatever each
\* family's fit did (a usable r2, NaN, null, a negative r2, a throw).
C1_BestModelIsValid ==
   outcome.kind = "returned" =>
      /\ outcome.bestModel \in Entries(outcome.allModels)
      /\ outcome.bestModel.r2.t = "num"
      /\ outcome.bestModel.r2.v >= 0 /\ outcome.bestModel.r2.v <= 100000
      /\ outcome.bestModel.aic.t = "num"

\* C1 witness: a call returned although some families threw or gave an unusable
\* r2: the last fit (Power) returned NaN and fewer than seven entries were kept.
C1_Witness ==
   /\ outcome.kind = "returned"
   /\ last.res = Returned(NaN)
   /\ Len(outcome.allModels) >= 2
   /\ Len(outcome.allModels) < Len(models) - 1

\* C2: a materially worse-r2 model never wins: after the scan no candidate of
\* the pool has an r2 above the returned bestModel's r2 by more than 0.05.
C2_NoMateriallyBetterCandidate ==
   outcome.kind = "returned" =>
      \A c \in Entries(Pool) : c.r2.v - outcome.bestModel.r2.v <= Margin

\* The two candidates of a pool of exactly two, in family order.
PairPool == outcome.kind = "returned" /\ Len(Pool) = 2
Gap == IF Pool[1].r2.v >= Pool[2].r2.v THEN Pool[1].r2.v - Pool[2].r2.v
       ELSE Pool[2].r2.v - Pool[1].r2.v

\* C3: in a pool of exactly two candidates whose r2 values differ by at most
\* 0.05, the one with the strictly lower aic is returned, whatever its place
\* and its r2; with equal aic the earlier one is returned.
C3_TieBreakByAic ==
   (PairPool /\ Gap <= Margin) =>
      outcome.bestModel = IF Pool[2].aic.v < Pool[1].aic.v THEN Pool[2] ELSE Pool[1]

\* C4: in a pool of exactly two candidates whose r2 values differ by more than
\* 0.05, the candidate with the higher r2 is returned, whatever the two aic
\* values are and whichever of the two comes first.
C4_DecisiveWin ==
   (PairPool /\ Gap > Margin) =>
      outcome.bestModel = IF Pool[2].r2.v > Pool[1].r2.v THEN Pool[2] ELSE Pool[1]

\* C4 witness: a decisive pair whose higher-r2 candidate comes first and has
\* the higher aic, so that the later, lower-aic candidate does not replace it.
C4_Witness ==
   /\ PairPool /\ Gap > Margin
   /\ Pool[1].r2.v > Pool[2].r2.v
   /\ Pool[1].aic.v > Pool[2].aic.v
   /\ outcome.bestModel = Pool[1]

\* C5: when the candidate pool is empty, runRegressionAnalysis throws the one
\* error 'No valid regression models found', after every one of the seven
\* families was attempted, and returns nothing.
C5_EmptyPoolFails ==
   (Finished /\ Len(Pool) = 0) =>
      /\ outcome.kind = "threw"
      /\ outcome.error = "No valid regression models found"
      /\ outcome.bestModel = NoModel
      /\ attempted = models

\* C5 witness: a call on two or more points ended with the error after the
\* seventh family (Power) threw.
C5_Witness ==
   /\ Finished /\ Len(Pool) = 0
   /\ data.length >= 2
   /\ last = [model |-> "Power", res |-> Threw]
   /\ outcome.kind = "threw"

\* C6: a POST whose data is no array or has fewer than 2 points is answered 400
\* 'At least two data points are required', and runRegressionAnalysis (hence
\* every fitter) is never invoked for it.
C6_RouteRejectsShortData ==
   (via = "route" /\ (~data.isArray \/ data.length < 2)) =>
      /\ pc \in {"idle", "route", "done"}
      /\ last = NoCall /\ results = << >> /\ outcome = NoOutcome
      /\ pc = "done" =>
            response = [status |-> 400, error |-> "At least two data points are required"]

\* C6 witness: a request with an array of one point has been answered 400.
C6_Witness ==
   /\ via = "route" /\ pc = "done"
   /\ data = Array(1)
   /\ response.status = 400

\* C7: runRegressionAnalysis itself, called with fewer than 2 points, fails with
\* an InvalidInputError that is not the no-valid-model error, before any family
\* is attempted.
C7_CoreRejectsShortData ==
   (via = "direct" /\ pc \in {"forEach", "done"} /\ data.length < 2) =>
      /\ last = NoCall
      /\ pc = "done" =>
            (outcome.kind = "threw" /\ outcome.error # "No valid regression models found")

\* The fit just made failed: it threw, or its r2 is NaN, null or negative.
LastFailed ==
   /\ last # NoCall
   /\ \/ last.res.threw
      \/ last.res.r2.t \in {"NaN", "null"}
      \/ (last.res.r2.t = "num" /\ last.res.r2.v < 0)

\* C8: a family whose fit throws or is unusable never aborts the run: the loop
\* goes on to the next family in the fixed order, a finished call has attempted
\* all seven, and the entries of the other families are what they are without
\* it: the failing round leaves results as it was, and every entry is made of
\* its own family's fit and the number of points alone.
C8_FailureDoesNotAbort ==
   /\ [][(pc = "forEach" /\ idx <= Len(models)) =>
            /\ pc' = "forEach" /\ idx' = idx + 1
            /\ last'.model = models[idx]
            /\ LastFailed' => results' = results]_vars
   /\ [](Finished => attempted = models)
   /\ [](\A e \in Entries(results) :
            e = Entry(e.model, Returned(e.r2), data.length, polynomialDegree))

\* C8 witness: in the middle of a run a family threw after an entry was pushed,
\* and the loop stands at the next family.
C8_Witness ==
   /\ pc = "forEach" /\ idx = 4
   /\ last = [model |-> "Cubic", res |-> Threw]
   /\ Len(results) >= 1

FamilyOrder == << "Linear", "Quadratic", "Cubic", "Quartic", "Exponential", "Logarithmic", "Power" >>
Place(name) == CHOOSE i \in 1..Len(FamilyOrder) : FamilyOrder[i] = name
Ascending(seq) ==
   \A i, j \in 1..Len(seq) : i < j => Place(seq[i].model) < Place(seq[j].model)

\* C10: the families are attempted in the order Linear, Quadratic, Cubic,
\* Quartic, Exponential, Logarithmic, Power, and allModels lists its entries in
\* that order: a subsequence of the seven names, no name twice.
C10_FamilyOrder ==
   /\ [][last' # last /\ pc' = "forEach" =>
            /\ last'.model = FamilyOrder[idx]
            /\ idx' = idx + 1]_vars
   /\ [](Ascending(results) /\ Ascending(outcome.allModels))
   /\ [](Finished => idx = Len(FamilyOrder) + 1)

\* C10 witness: a returned allModels that skips families: it does not start with
\* Linear, holds at least three entries and the last family threw.
C10_Witness ==
   /\ outcome.kind = "returned"
   /\ Len(outcome.allModels) >= 3
   /\ outcome.allModels[1].model # "Linear"
   /\ last.res.threw

\* C11: an analysis request whose body carries polynomialDegree d, 2 <= d <= 6,
\* has its Quartic family fitted with order min(4, d); with d = 4, 5 or 6 the
\* Quartic fit is of order 4 and has five coefficients.
C11_RequestDegreeSetsQuartic ==
   (via = "route" /\ pc = "forEach" /\ requested \in 2..6) =>
      /\ Order("Quartic", polynomialDegree) = Min(4, requested)
      /\ EquationLength("Quartic", polynomialDegree) = Min(4, requested) + 1

\* C12: calculateAIC(n, k, r2) returns null whenever r2 is null, undefined, NaN
\* or negative, for every n and k, and no entry with such an r2 is ever in the
\* candidate pool bestModel is chosen from.
Missing(r2) ==
   \/ r2.t \in {"null", "undefined", "NaN", "-Infinity"}
   \/ r2.t = "num" /\ r2.v < 0
C12_MissingR2IsUndefined ==
   /\ (calc.called /\ Missing(calc.r2)) => calc.aic = Null
   /\ \A e \in Entries(Pool) : ~Missing(e.r2)

\* C12 witness: calculateAIC was called with the largest n and k and an undefined
\* r2, and returned null.
C12_Witness ==
   calc.called /\ calc.r2 = Undefined /\ calc.n = MaxN /\ calc.k = MaxK /\ calc.aic = Null

Interior == {x \in LogDomain : x > 1 /\ x < 99999}
C14_NonIncreasingInR2 ==
   (calc.called /\ calc.n >= 1 /\ calc.r2.t = "num" /\ calc.r2.v \in Interior) =>
      \A b \in Interior :
         calc.r2.v < b =>
            /\ calculateAIC(calc.n, calc.k, Num(b)).t = "num"
            /\ calc.aic.t = "num"
            /\ calc.aic.v >= calculateAIC(calc.n, calc.k, Num(b)).v

\* C14 witness: a call with r2 = 0.5 and n, k > 0 whose result is strictly above
\* that of r2 = 0.51.
C14_Witness ==
   /\ calc.called /\ calc.n = MaxN /\ calc.k = MaxK /\ calc.r2 = Num(50000)
   /\ calc.aic.v > calculateAIC(MaxN, MaxK, Num(51000)).v

\* C15: for r2 at or above 0.99999 calculateAIC returns -500 + 10k: the same for
\* every n and every such r2, and strictly higher for a larger k.
NearPerfectR2(r2) == r2.t = "Infinity" \/ (r2.t = "num" /\ r2.v >= 99999)
C15_NearPerfectScore ==
   (calc.called /\ NearPerfectR2(calc.r2)) =>
      /\ calc.aic = Num((10 * calc.k - 500) * AicUnit)
      /\ \A n \in 0..MaxN : calculateAIC(n, calc.k, calc.r2) = calc.aic
      /\ \A k \in 0..MaxK :
            k > calc.k => Lt(calc.aic, calculateAIC(calc.n, k, calc.r2))

\* C15 witness: a call at the threshold itself, r2 = 0.99999, with n > 0.
C15_Witness ==
   calc.called /\ calc.r2 = Num(99999) /\ calc.n = MaxN /\ calc.k = 2
   /\ calc.aic = Num(-480 * AicUnit)

\* C16: when two or more families of the pool fit near-perfectly (r2 >= 0.99999),
\* the returned bestModel is one of them, none of them has fewer coefficients, and
\* none with as few coefficients comes earlier in family order; on colinear data
\* where Linear, Quadratic, Cubic and Quartic all reach r2 = 1, bestModel is Linear.
NearPerfect == {e \in Entries(outcome.allModels) : e.r2.t = "num" /\ e.r2.v >= 99999}
C16_SimplestNearPerfectWins ==
   (outcome.kind = "returned" /\ Cardinality(NearPerfect) >= 2) =>
      /\ outcome.bestModel \in NearPerfect
      /\ \A e \in NearPerfect :
            /\ outcome.bestModel.k <= e.k
            /\ e.k = outcome.bestModel.k => Place(outcome.bestModel.model) <= Place(e.model)
      /\ {"Linear", "Quadratic", "Cubic", "Quartic"} \subseteq {e.model : e \in NearPerfect}
            => outcome.bestModel.model = "Linear"

\* C17: when all points share the same y, no family enters the candidate pool and
\* the analysis ends with the error 'No valid regression models found' instead of
\* returning a bestModel.
C17_FlatDataFails ==
   (Finished /\ data.y = "flat") =>
      /\ Len(Pool) = 0
      /\ outcome.kind = "threw"
      /\ outcome.error = "No valid regression models found"

\* C18: for data with some x <= 0, no Logarithmic or Power entry of allModels is a
\* valid one (the families are absent, or listed without a usable aic), and
\* bestModel is neither of the two.
LogFamilies == {"Logarithmic", "Power"}
C18_NoLogFamiliesOnNonPositiveX ==
   data.x = "nonpositive" =>
      /\ \A e \in Entries(results) : e.model \in LogFamilies => ~Usable(e)
      /\ \A e \in Entries(outcome.allModels) : e.model \in LogFamilies => ~Usable(e)
      /\ outcome.bestModel.model \notin LogFamilies

\* C18 witness: a call on data with some x <= 0 returned a bestModel after the
\* Logarithmic and Power fits were both made, and allModels lists neither.
C18_Witness ==
   /\ Finished /\ data.x = "nonpositive" /\ data.y = "any"
   /\ outcome.kind = "returned"
   /\ last.model = "Power" /\ isNaN(last.res.r2)
   /\ \A e \in Entries(outcome.allModels) : e.model \notin LogFamilies

\* C19: a family with k coefficients never enters the candidate pool, and is never
\* bestModel, when the data has fewer than k + 1 points.
C19_TooFewPointsSkipped ==
   /\ \A e \in Entries(Pool) : data.length >= e.k + 1
   /\ outcome.kind = "returned" => data.length >= outcome.bestModel.k + 1

Coefficients(model) ==
   CASE model \in {"Linear", "Exponential", "Logarithmic", "Power"} -> 2
     [] model = "Quadratic" -> 3
     [] model = "Cubic" -> 4
     [] model = "Quartic" -> (IF polynomialDegree < 4 THEN polynomialDegree ELSE 4) + 1
C26_AicOfEveryEntry ==
   \A e \in Entries(results) \cup Entries(outcome.allModels) :
      /\ e.k = Coefficients(e.model)
      /\ e.aic = calculateAIC(data.length, Coefficients(e.model), e.r2)

\* C26 witness: a call on two points returned, and its allModels holds a Quartic
\* entry of five coefficients with an r2 below 1, whose aic depends on n and k.
C26_Witness ==
   /\ outcome.kind = "returned" /\ data.length = 2
   /\ \E e \in Entries(outcome.allModels) :
         e.model = "Quartic" /\ e.k = 5 /\ e.r2 = Num(90000)

\* C28: when polynomialDegree is absent or at most 3, a Quartic entry of allModels
\* has the r2 and the aic of the Cubic entry (degree 3) or of the Quadratic entry
\* (degree 2), and the returned bestModel is never the Quartic one.
Twin(degree) == IF degree = 2 THEN "Quadratic" ELSE "Cubic"
C28_QuarticNeverBest ==
   (outcome.kind = "returned" /\ polynomialDegree \in 2..3) =>
      /\ \A e \in Entries(outcome.allModels) :
            e.model = "Quartic" =>
               \E c \in Entries(outcome.allModels) :
                  c.model = Twin(polynomialDegree) /\ c.r2 = e.r2 /\ c.aic = e.aic
      /\ outcome.bestModel.model # "Quartic"

\* C25: a request to the route gets exactly one response: 400 when the guard
\* rejects the body, 200 when runRegressionAnalysis returned, 500 'Regression
\* analysis failed' when it threw, which it does only after every family was tried
\* and none was usable; nothing is answered while the families are fitted, so a
\* family that fails answers nothing by itself, and an answer given is not replaced.
Answers ==
   {[status |-> 400, error |-> "At least two data points are required"],
    [status |-> 200, error |-> ""],
    [status |-> 500, error |-> "Regression analysis failed"]}
Answered ==
   /\ response \in Answers
   /\ response.status = 400 <=> Invalid(data)
   /\ response.status = 200 <=> outcome.kind = "returned"
   /\ response.status = 500 <=>
         /\ outcome.kind = "threw"
         /\ outcome.error = "No valid regression models found"
         /\ idx > Len(models)
         /\ Pool = << >>
C25_OneResponsePerRequest ==
   /\ [](via = "route" => IF pc = "done" THEN Answered ELSE response = NoResponse)
   /\ [][response' # response =>
            \/ response = NoResponse /\ via = "route" /\ pc \in {"route", "forEach"} /\ pc' = "done"
            \/ response' = NoResponse /\ pc = "done" /\ pc' = "idle"]_vars
C25_Witness ==
   /\ via = "route" /\ pc = "done"
   /\ response.status = 200
   /\ last.model = "Power" /\ last.res = Threw
   /\ \E i \in 1..Len(results) : results[i].model = "Linear"

\* C21: no state is shared between invocations.  While a call runs and when it
\* has ended, its results list holds at most one entry per family it has tried, in
\* family order, each with an r2 that a fit of this call's data can return and the
\* aic of this call's n; the outcome is the conclusion of that list and the route's
\* response is the one for this request's data alone, whatever earlier requests
\* and calls left behind; and a call never changes the data it was given.
Own(e) ==
   /\ \E i \in 1..(idx - 1) : models[i] = e.model
   /\ e.k = Coefficients(e.model)
   /\ Returned(e.r2) \in FitOutcomes(data, e.model, e.k)
   /\ e.aic = calculateAIC(data.length, e.k, e.r2)
Running == pc = "forEach" \/ (pc = "done" /\ ~Invalid(data))
C21_NothingSharedBetweenCalls ==
   /\ [](Running =>
            /\ Len(results) <= idx - 1
            /\ \A i \in 1..Len(results) : Own(results[i])
            /\ \A i, j \in 1..Len(results) : i < j => Place(results[i].model) < Place(results[j].model))
   /\ [](pc = "done" =>
            /\ ~Invalid(data) => outcome = Conclusion(results)
            /\ via = "route" => response = (IF Invalid(data)
                                            THEN [status |-> 400, error |-> "At least two data points are required"]
                                            ELSE Respond(Conclusion(results))))
   /\ [][(pc \in {"route", "forEach"}) => data' = data]_vars
C21_Witness ==
   /\ pc = "forEach" /\ idx > Len(models)
   /\ results # << >>
   /\ outcome.kind = "returned"
   /\ \E e \in Entries(outcome.allModels) : ~Own(e)

\* C22: for coefficients [a, b] and every x > 0 the Logarithmic evaluator returns
\* coefficients[0] + coefficients[1] * ln(x).
Numeric(coefficients) ==
   Len(coefficients) >= 2 /\ \A i \in 1..Len(coefficients) : coefficients[i].t = "num"
C22_LogarithmicInCoefficientOrder ==
   (ev.op = "evaluate" /\ ev.fn = "evaluateLogarithmic" /\ Numeric(ev.coefficients) /\ ev.x > 0) =>
      ev.value = Num(ev.coefficients[1].v * Milli + ev.coefficients[2].v * MathLog(ev.x))

\* C23: the residual operation returns one entry per input point, in input
\* order; where the prediction is undefined (Logarithmic or Power at x <= 0) the
\* entry is flagged undefined, not dropped and not given a numeric residual, and
\* everywhere else it is (x, y - predicted(x)).
UndefinedAt(bestModel, x) == bestModel.model \in {"Logarithmic", "Power"} /\ x <= 0
C23_UndefinedResidualsFlagged ==
   ev.op = "residuals" =>
      /\ Len(ev.residuals) = Len(ev.points)
      /\ \A i \in 1..Len(ev.points) :
            /\ ev.residuals[i].x = ev.points[i][1]
            /\ IF UndefinedAt(ev.bestModel, ev.points[i][1])
               THEN ev.residuals[i].residual.t # "num"
               ELSE ev.residuals[i].residual
                       = Num(Milli * ev.points[i][2] - Predicted(ev.bestModel, ev.points[i][1]).v)

\* C24: with two numeric coefficients, the Logarithmic and the Power evaluator
\* return null exactly when x <= 0 and a number otherwise, and the Exponential
\* evaluator returns the number a * e^(b * x) for every x, negative and 0 included.
C24_NullExactlyAtNonPositiveX ==
   (ev.op = "evaluate" /\ Numeric(ev.coefficients)) =>
      /\ ev.fn \in {"evaluateLogarithmic", "evaluatePower"} =>
            /\ ev.value = Null <=> ev.x <= 0
            /\ ev.value.t = "num" <=> ev.x > 0
      /\ ev.fn = "evaluateExponential" =>
            ev.value = Num(ev.coefficients[1].v * MathExp(ev.coefficients[2].v * ev.x))
C24_Witness ==
   /\ ev.op = "evaluate" /\ ev.fn = "evaluatePower"
   /\ ev.coefficients = <<Num(2), Num(1)>>
   /\ ev.x = 0
   /\ ev.value = Null

\* C27: the polynomial evaluator returns the value of Horner's scheme over the
\* coefficients, highest degree first, for 1 to 5 coefficients and every x, x = 0
\* included, and 0 for no coefficients.
RECURSIVE Horner(_, _, _)
Horner(coefficients, x, index) ==
   IF index = 0 THEN 0 ELSE Horner(coefficients, x, index - 1) * x + coefficients[index].v
C27_PolynomialEqualsHorner ==
   (ev.op = "evaluate" /\ ev.fn = "evaluatePolynomial") =>
      /\ ev.value = Num(Milli * Horner(ev.coefficients, ev.x, Len(ev.coefficients)))
      /\ ev.coefficients = << >> => ev.value = Num(0)
C27_Witness ==
   /\ ev.op = "evaluate" /\ ev.fn = "evaluatePolynomial"
   /\ ev.coefficients = <<Num(2), Num(0), Num(-1), Num(1), Num(2)>>
   /\ ev.x = 0
   /\ ev.value = Num(2 * Milli)

\* C29: on the page, under any interleaving of handleAnalyze, handleFileChange,
\* handleClear, loadSample and the arrival of responses, whenever regressionResults
\* is not null, analyzedData is not null and regressionResults is the backend's
\* response for exactly analyzedData.data.
C29_ResultsBelongToAnalyzedData ==
   ~regressionResults.isNull =>
      ~analyzedData.isNull /\ regressionResults.id = analyzedData.id

\* C30: every analysis that sets isAnalyzing to true eventually sets it to false,
\* whatever its outcome: a parse error, fewer than two pairs, a backend error, a
\* network failure, a file whose parsing never completes, or success.
C30_AnalyzingEventuallyEnds == isAnalyzing ~> ~isAnalyzing

====
